---- MODULE Spec2Model ----
(***************************************************************************)
(* Extension discovery and reverse-proxy gateway of the dashboard backend  *)
(* (pkg/endpoints/utils.go).                                               *)
(*                                                                         *)
(* The container is a restful.Container: an ordered list of pointers to    *)
(* web services.  Web services live in `heap` and are referred to by their *)
(* index, as the Go code refers to them by pointer: a web service that is  *)
(* being built by RegisterExtension is reachable from the container only   *)
(* once container.Add has stored its pointer.                              *)
(***************************************************************************)
EXTENDS Integers, Sequences, FiniteSets, TLC

VARIABLES
    boot,         \* position of main in the Startup call sequence
    heap,         \* allocated web services: Seq of [rootPath, routes]
    webServices,  \* the container: Seq of pointers (indexes of heap)
    pc,           \* position inside RegisterExtension, or how the process ended
    svcs,         \* svcs.Items of the pass in progress or last run
    i,            \* index of the service the range loop is at
    ws,           \* the pointer held by the local ws of RegisterExtension (0: none)
    err,          \* whether the last service-list query failed
    passes,       \* number of RegisterExtension calls made so far
    req           \* the request being served, and what it observed

vars == <<boot, heap, webServices, pc, svcs, i, ws, err, passes, req>>

(***************************************************************************)
(* Bounds of the model.                                                    *)
(***************************************************************************)
MaxSvcs == 2      \* longest service list a query returns
MaxPasses == 2    \* discovery passes under the recurring trigger

(***************************************************************************)
(* Program constants.                                                      *)
(***************************************************************************)
extensionLabel == "tekton-dashboard-extension=true"
urlKey == "tekton-dashboard-endpoints"

(***************************************************************************)
(* strconv.Itoa: the decimal form of an integer.                           *)
(***************************************************************************)
Digits == <<"0", "1", "2", "3", "4", "5", "6", "7", "8", "9">>

RECURSIVE ItoaNat(_)
ItoaNat(n) ==
    IF n < 10 THEN Digits[n + 1]
    ELSE ItoaNat(n \div 10) \o Digits[(n % 10) + 1]

Itoa(n) == IF n < 0 THEN "-" \o ItoaNat(0 - n) ELSE ItoaNat(n)

(***************************************************************************)
(* The services of the namespace, and those the label selector returns.    *)
(* Names are unique within a namespace; a service of type ExternalName may *)
(* declare no port.                                                        *)
(***************************************************************************)
NoAnnotations == [k \in {} |-> ""]

Cluster ==
    { [Name |-> "foo",   Labels |-> {extensionLabel},
                         Annotations |-> (urlKey :> "/foo-ext"),
                         Ports |-> <<8080, 9090>>],
      [Name |-> "baz",   Labels |-> {extensionLabel},
                         Annotations |-> (urlKey :> "/foo-ext"),
                         Ports |-> <<9090>>],
      [Name |-> "app",   Labels |-> {extensionLabel, "app=demo"},
                         Annotations |-> (urlKey :> "/app-ext") @@ ("owner" :> "/team"),
                         Ports |-> <<80>>],
      [Name |-> "bar",   Labels |-> {extensionLabel},
                         Annotations |-> ("owner" :> "/bar-ext"),
                         Ports |-> <<>>],
      [Name |-> "plain", Labels |-> {extensionLabel},
                         Annotations |-> NoAnnotations,
                         Ports |-> <<8080>>],
      [Name |-> "qux",   Labels |-> {extensionLabel},
                         Annotations |-> (urlKey :> "/qux-ext"),
                         Ports |-> <<>>],
      [Name |-> "web",   Labels |-> {"app=demo"},
                         Annotations |-> (urlKey :> "/web-ext"),
                         Ports |-> <<80>>] }

\* Services(namespace).List with LabelSelector: extensionLabel
Services == { s \in Cluster : extensionLabel \in s.Labels }

Range(s) == { s[k] : k \in 1..Len(s) }

RECURSIVE ServiceListsOfLen(_)
ServiceListsOfLen(n) ==
    IF n = 0 THEN { <<>> }
    ELSE { Append(l, s) : l \in ServiceListsOfLen(n - 1), s \in Services }

ServiceLists ==
    { l \in UNION { ServiceListsOfLen(n) : n \in 0..MaxSvcs } :
        \A a, b \in 1..Len(l) : a # b => l[a].Name # l[b].Name }

(***************************************************************************)
(* Routes and web services.  A route is what ws.Route(ws.<METHOD>(path)    *)
(* .To(handler)) appends: the method, the sub-path as given, and the       *)
(* handler, which is a method value: the function and a copy of its        *)
(* receiver.                                                               *)
(***************************************************************************)
NoExt == [Name |-> "", URL |-> "", Port |-> ""]

ResourceRoute(method, path, fn) ==
    [method |-> method, path |-> path, to |-> [fn |-> fn, recv |-> NoExt]]

Extension(name, url, port) == [Name |-> name, URL |-> url, Port |-> port]

WebService(rootPath, routes) == [rootPath |-> rootPath, routes |-> routes]

wsv1 ==
    WebService("/v1/namespaces",
      << ResourceRoute("GET", "/{namespace}/pipeline", "getAllPipelines"),
         ResourceRoute("GET", "/{namespace}/pipeline/{name}", "getPipeline"),
         ResourceRoute("GET", "/{namespace}/pipelinerun", "getAllPipelineRuns"),
         ResourceRoute("GET", "/{namespace}/pipelinerun/{name}", "getPipelineRun"),
         ResourceRoute("PUT", "/{namespace}/pipelinerun/{name}", "updatePipelineRun"),
         ResourceRoute("GET", "/{namespace}/pipelineresource", "getAllPipelineResources"),
         ResourceRoute("GET", "/{namespace}/pipelineresource/{name}", "getPipelineResource"),
         ResourceRoute("GET", "/{namespace}/task", "getAllTasks"),
         ResourceRoute("GET", "/{namespace}/task/{name}", "getTask"),
         ResourceRoute("GET", "/{namespace}/taskrun", "getAllTaskRuns"),
         ResourceRoute("GET", "/{namespace}/taskrun/{name}", "getTaskRun"),
         ResourceRoute("GET", "/{namespace}/log/{name}", "getPodLog"),
         ResourceRoute("GET", "/{namespace}/taskrunlog/{name}", "getTaskRunLog"),
         ResourceRoute("GET", "/{namespace}/pipelinerunlog/{name}", "getPipelineRunLog"),
         ResourceRoute("GET", "/{namespace}/credentials/", "getAllCredentials"),
         ResourceRoute("GET", "/{namespace}/credentials/{id}", "getCredential"),
         ResourceRoute("POST", "/{namespace}/credentials/", "createCredential"),
         ResourceRoute("PUT", "/{namespace}/credentials/{id}", "updateCredential"),
         ResourceRoute("DELETE", "/{namespace}/credentials/{id}", "deleteCredential") >>)

wsv2 ==
    WebService("/v1/websocket",
      << ResourceRoute("GET", "/logs", "establishPipelineLogsWebsocket"),
         ResourceRoute("GET", "/pipelineruns", "establishPipelineRunsWebsocket") >>)

wsv3 == WebService("/health", << ResourceRoute("GET", "/", "checkHealth") >>)

wsv4 == WebService("/readiness", << ResourceRoute("GET", "/", "checkHealth") >>)

(***************************************************************************)
(* The calls main makes at startup, in order.  RegisterExtension is the    *)
(* discovery pass "triggered at startup".                                  *)
(***************************************************************************)
Startup ==
    << "RegisterEndpoints", "RegisterWebsocket", "RegisterHealthProbes",
       "RegisterReadinessProbes", "RegisterExtension" >>

AtCall(name) == boot \in 1..Len(Startup) /\ Startup[boot] = name

Alive == pc \notin {"panicked", "exited"}

(***************************************************************************)
(* container.Add(service).  The routing layer is asked to add the web      *)
(* service; it keeps the pointer at the end of its list.  When a web       *)
(* service with the same root path is already registered the routing layer *)
(* either refuses it by terminating the process or keeps both: both        *)
(* outcomes are allowed here.  The result is the set of possible           *)
(* <<webServices', exited>> pairs.                                         *)
(***************************************************************************)
DuplicateRoot(ptr) ==
    \E k \in 1..Len(webServices) : heap[webServices[k]].rootPath = heap[ptr].rootPath

ContainerAdd(ptr) ==
    IF DuplicateRoot(ptr)
    THEN { <<webServices, TRUE>>, <<Append(webServices, ptr), FALSE>> }
    ELSE { <<Append(webServices, ptr), FALSE>> }

NoReq ==
    [state |-> "idle", method |-> "", path |-> "", fn |-> "", ext |-> NoExt,
     target |-> "", attempts |-> 0, upstream |-> "", status |-> 0,
     pcAt |-> "", seen |-> 0, built |-> 0]

Init ==
    /\ boot = 1
    /\ heap = <<>>
    /\ webServices = <<>>
    /\ pc = "idle"
    /\ svcs = <<>>
    /\ i = 0
    /\ ws = 0
    /\ err = FALSE
    /\ passes = 0
    /\ req = NoReq

(***************************************************************************)
(* The four registrations of the dashboard's own routes: each builds a web *)
(* service and adds it to the container.                                   *)
(***************************************************************************)
RegisterResource(name, service) ==
    /\ Alive
    /\ AtCall(name)
    /\ heap' = Append(heap, service)
    /\ webServices' = Append(webServices, Len(heap) + 1)
    /\ boot' = boot + 1
    /\ UNCHANGED <<pc, svcs, i, ws, err, passes, req>>

RegisterEndpoints == RegisterResource("RegisterEndpoints", wsv1)

RegisterWebsocket == RegisterResource("RegisterWebsocket", wsv2)

RegisterHealthProbes == RegisterResource("RegisterHealthProbes", wsv3)

RegisterReadinessProbes == RegisterResource("RegisterReadinessProbes", wsv4)

(***************************************************************************)
(* RegisterExtension, in three steps: the service-list query and the new   *)
(* web service, one iteration of the range loop, and container.Add.        *)
(***************************************************************************)

\* variant: the inner loop without its test of the key
EndpointAnnotationsAnyKey(svc) == DOMAIN svc.Annotations

\* the keys of svc's annotations the inner loop acts on
EndpointAnnotations(svc) == { key \in DOMAIN svc.Annotations : key = urlKey }

\* svc.Spec.Ports[0] of an empty port list is an index out of range
getPortPanics(svc) == Len(svc.Ports) = 0

\* variant: the last declared port instead of the first
getPortOfLast(svc) == Itoa(svc.Ports[Len(svc.Ports)])

getPort(svc) == Itoa(svc.Ports[1])

\* variant: the route path derived from the service name, not the annotation
ExtensionRouteAtName(svc, url) ==
    [method |-> "POST", path |-> "/" \o svc.Name,
     to |-> [fn |-> "HandleExtension",
             recv |-> Extension(svc.Name, url, getPort(svc))]]

\* variant: every handler shares one receiver, which ends as the last service
ExtensionRouteOfLast(svc, url) ==
    [method |-> "POST", path |-> url,
     to |-> [fn |-> "HandleExtension",
             recv |-> Extension(svcs[Len(svcs)].Name, url, getPort(svc))]]

\* ws.POST(url).To(ext.HandleExtension) with ext built from svc
ExtensionRoute(svc, url) ==
    [method |-> "POST", path |-> url,
     to |-> [fn |-> "HandleExtension",
             recv |-> Extension(svc.Name, url, getPort(svc))]]

\* the orders in which a range over a map may visit the keys
RECURSIVE Orders(_)
Orders(S) ==
    IF S = {} THEN { <<>> }
    ELSE UNION { { <<x>> \o t : t \in Orders(S \ {x}) } : x \in S }

RoutesOf(svc, keys) == [k \in 1..Len(keys) |-> ExtensionRoute(svc, svc.Annotations[keys[k]])]

\* variant: a failed query is logged but the function does not return
RegisterExtensionListNoReturn ==
    /\ Alive
    /\ AtCall("RegisterExtension")
    /\ pc = "idle"
    /\ passes' = passes + 1
    /\ \E failed \in BOOLEAN :
         /\ err' = failed
         /\ svcs' \in IF failed THEN { <<>> } ELSE ServiceLists
    /\ heap' = Append(heap, WebService("/", <<>>))
    /\ ws' = Len(heap) + 1
    /\ i' = 1
    /\ pc' = "loop"
    /\ UNCHANGED <<boot, webServices, req>>

\* variant: the new web service is added to the container before its routes
RegisterExtensionListAddsFirst ==
    /\ Alive
    /\ AtCall("RegisterExtension")
    /\ pc = "idle"
    /\ passes' = passes + 1
    /\ \/ /\ err' = TRUE
          /\ svcs' = <<>>
          /\ pc' = "done"
          /\ boot' = boot + 1
          /\ i' = 0
          /\ ws' = 0
          /\ UNCHANGED <<heap, webServices>>
       \/ /\ err' = FALSE
          /\ svcs' \in ServiceLists
          /\ heap' = Append(heap, WebService("/", <<>>))
          /\ ws' = Len(heap) + 1
          /\ webServices' = Append(webServices, Len(heap) + 1)
          /\ i' = 1
          /\ pc' = "loop"
          /\ UNCHANGED boot
    /\ UNCHANGED req

RegisterExtensionList ==
    /\ Alive
    /\ AtCall("RegisterExtension")
    /\ pc = "idle"
    /\ passes' = passes + 1
    /\ \/ /\ err' = TRUE            \* the query failed: log and return
          /\ svcs' = <<>>
          /\ pc' = "done"
          /\ boot' = boot + 1
          /\ i' = 0
          /\ ws' = 0
          /\ UNCHANGED <<heap, webServices>>
       \/ /\ err' = FALSE
          /\ svcs' \in ServiceLists
          /\ heap' = Append(heap, WebService("/", <<>>))
          /\ ws' = Len(heap) + 1
          /\ i' = 1
          /\ pc' = "loop"
          /\ UNCHANGED <<boot, webServices>>
    /\ UNCHANGED req

RegisterExtensionRange ==
    /\ pc = "loop"
    /\ i <= Len(svcs)
    /\ LET svc == svcs[i]
           keys == EndpointAnnotations(svc)
       IN  IF keys # {} /\ getPortPanics(svc)
           THEN /\ pc' = "panicked"
                /\ UNCHANGED <<heap, i>>
           ELSE /\ \E order \in Orders(keys) :
                     heap' = [heap EXCEPT ![ws].routes = @ \o RoutesOf(svc, order)]
                /\ i' = i + 1
                /\ pc' = pc
    /\ UNCHANGED <<boot, webServices, svcs, ws, err, passes, req>>

RegisterExtensionAdd ==
    /\ pc = "loop"
    /\ i > Len(svcs)
    /\ \E out \in ContainerAdd(ws) :
         /\ webServices' = out[1]
         /\ pc' = IF out[2] THEN "exited" ELSE "done"
    /\ boot' = boot + 1
    /\ UNCHANGED <<heap, svcs, i, ws, err, passes, req>>

\* a recurring trigger calls RegisterExtension again on the same container
Rediscover ==
    /\ pc = "done"
    /\ boot > Len(Startup)
    /\ passes < MaxPasses
    /\ boot' = Len(Startup)
    /\ pc' = "idle"
    /\ UNCHANGED <<heap, webServices, svcs, i, ws, err, passes, req>>

(***************************************************************************)
(* Serving a request: the container selects a route among those of the     *)
(* web services it holds, and calls its handler.                           *)
(***************************************************************************)
Requests ==
    { [method |-> "POST", path |-> "/foo-ext"],
      [method |-> "POST", path |-> "/app-ext"],
      [method |-> "POST", path |-> "/bar-ext"],
      [method |-> "GET",  path |-> "/health/"] }

\* how the upstream of a forwarded request behaves
Upstreams == { "responds", "refused", "unresolved", "silent" }

FullPath(rootPath, path) == IF rootPath = "/" THEN path ELSE rootPath \o path

\* the routes a request can be dispatched to: <<web service, route>>
VisibleRoutes ==
    UNION { { <<webServices[k], j>> : j \in 1..Len(heap[webServices[k]].routes) } :
            k \in 1..Len(webServices) }

RouteAt(rt) == heap[rt[1]].routes[rt[2]]

PathMatches(r) ==
    { rt \in VisibleRoutes : FullPath(heap[rt[1]].rootPath, RouteAt(rt).path) = r.path }

MethodMatches(r) == { rt \in PathMatches(r) : RouteAt(rt).method = r.method }

\* how many routes of the web service RegisterExtension holds are visible
SeenOfPass ==
    IF ws # 0 /\ ws \in Range(webServices) THEN Len(heap[ws].routes) ELSE 0

BuiltOfPass == IF ws # 0 THEN Len(heap[ws].routes) ELSE 0

\* variant: the handler forwards the request a second time
HandleExtensionTwice(ext) ==
    [target |-> "http://" \o ext.Name \o ":" \o ext.Port \o "/", attempts |-> 2]

\* Extension.HandleExtension: the proxy target, and the calls of proxy.ServeHTTP
HandleExtension(ext) ==
    [target |-> "http://" \o ext.Name \o ":" \o ext.Port \o "/", attempts |-> 1]

\* the reverse proxy's answer: the upstream's own, or 502 when the round trip fails
ProxyStatus(upstream) == IF upstream = "responds" THEN 200 ELSE 502

Arrived(r) ==
    [NoReq EXCEPT !.method = r.method, !.path = r.path, !.pcAt = pc,
                  !.seen = SeenOfPass, !.built = BuiltOfPass]

Dispatch(r) ==
    /\ Alive
    /\ req.state # "pending"
    /\ IF PathMatches(r) = {}
       THEN req' = [Arrived(r) EXCEPT !.state = "done", !.status = 404]
       ELSE IF MethodMatches(r) = {}
       THEN req' = [Arrived(r) EXCEPT !.state = "done", !.status = 405]
       ELSE \E rt \in MethodMatches(r) :
              LET to == RouteAt(rt).to IN
              IF to.fn = "HandleExtension"
              THEN \E u \in Upstreams :
                     LET h == HandleExtension(to.recv) IN
                     req' = [Arrived(r) EXCEPT !.state = "pending", !.fn = to.fn,
                                               !.ext = to.recv, !.target = h.target,
                                               !.attempts = h.attempts, !.upstream = u]
              ELSE req' = [Arrived(r) EXCEPT !.state = "done", !.fn = to.fn,
                                             !.status = 200]
    /\ UNCHANGED <<boot, heap, webServices, pc, svcs, i, ws, err, passes>>

\* the http server is started once the startup calls have returned
Listening == boot > Len(Startup)

Serve == Listening /\ \E r \in Requests : Dispatch(r)

ServeConcurrently == \E r \in Requests : Dispatch(r)

\* proxy.ServeHTTP returns: the upstream answered, or the round trip failed
ServeHTTP ==
    /\ Alive
    /\ req.state = "pending"
    /\ req.upstream # "silent"
    /\ req' = [req EXCEPT !.state = "done", !.status = ProxyStatus(req.upstream)]
    /\ UNCHANGED <<boot, heap, webServices, pc, svcs, i, ws, err, passes>>

Registrations ==
    \/ RegisterEndpoints
    \/ RegisterWebsocket
    \/ RegisterHealthProbes
    \/ RegisterReadinessProbes
    \/ RegisterExtensionList
    \/ RegisterExtensionRange
    \/ RegisterExtensionAdd

\* the program as main runs it: registration, one discovery pass, then serving
Next == Registrations \/ Serve \/ ServeHTTP

Spec == Init /\ [][Next]_vars

\* the transport returns from every round trip whose upstream answers or fails
SpecLive == Spec /\ WF_vars(ServeHTTP)

\* requests served while a discovery pass runs
NextConc == Registrations \/ ServeConcurrently \/ ServeHTTP

SpecConc == Init /\ [][NextConc]_vars

\* discovery on a recurring trigger
NextRepeat == Registrations \/ Rediscover

SpecRepeat == Init /\ [][NextRepeat]_vars

(***************************************************************************)
(* Properties.                                                             *)
(***************************************************************************)
Annotated(s) == urlKey \in DOMAIN s.Annotations

HasPort(s) == Len(s.Ports) >= 1

\* the decimal forms of the ports the cluster's services declare
DecimalOf(n) == CASE n = 80 -> "80" [] n = 8080 -> "8080" [] n = 9090 -> "9090"

\* a pass whose query succeeded has returned
PassDone == pc = "done" /\ ~err

\* the routes of the web service the pass built
PassRoutes == IF ws = 0 THEN <<>> ELSE heap[ws].routes

HasRouteFor(s) ==
    \E j \in 1..Len(PassRoutes) :
        /\ PassRoutes[j].method = "POST"
        /\ PassRoutes[j].path = s.Annotations[urlKey]
        /\ PassRoutes[j].to.fn = "HandleExtension"
        /\ PassRoutes[j].to.recv.Name = s.Name

NoRouteFor(s) ==
    \A j \in 1..Len(PassRoutes) : PassRoutes[j].to.recv.Name # s.Name

\* C1: after a pass whose query succeeded, every returned service with the
\* endpoint annotation and at least one port has a POST route at exactly the
\* annotation's value, in a web service rooted at "/" that the container holds.
C1_RouteAtAnnotatedPath ==
    PassDone =>
        /\ ws \in Range(webServices)
        /\ heap[ws].rootPath = "/"
        /\ \A k \in 1..Len(svcs) :
             Annotated(svcs[k]) /\ HasPort(svcs[k]) => HasRouteFor(svcs[k])

C1_Witness ==
    /\ PassDone
    /\ Len(svcs) = 2
    /\ \A k \in 1..2 : Annotated(svcs[k]) /\ HasPort(svcs[k])
    /\ svcs[1].Annotations[urlKey] # svcs[2].Annotations[urlKey]

\* C2: a service with the endpoint annotation and an empty port list is
\* skipped: the pass does not crash, no route is registered for the service,
\* and every other valid service of the pass gets its route.
C2_PortlessServiceSkipped ==
    /\ pc # "panicked"
    /\ PassDone =>
         \A k \in 1..Len(svcs) :
            Annotated(svcs[k]) =>
               IF HasPort(svcs[k]) THEN HasRouteFor(svcs[k]) ELSE NoRouteFor(svcs[k])

\* C3: when two services of a pass carry the same annotated path, exactly one
\* route for that path exists after the pass, bound to the service processed
\* last.
C3_LastRegisteredWins ==
    PassDone =>
        \A j \in 1..Len(PassRoutes) :
            /\ \A h \in 1..Len(PassRoutes) :
                 PassRoutes[h].path = PassRoutes[j].path => h = j
            /\ LET declarers == { k \in 1..Len(svcs) :
                                    /\ Annotated(svcs[k])
                                    /\ svcs[k].Annotations[urlKey] = PassRoutes[j].path }
                   last == CHOOSE k \in declarers : \A m \in declarers : m <= k
               IN  PassRoutes[j].to.recv.Name = svcs[last].Name

\* C4: when the service-list query fails, RegisterExtension returns with the
\* process running and the container exactly as the four registrations of
\* the dashboard's own routes left it: no web service added, no extension
\* route, and the dashboard's routes still dispatched.
C4_FailedQueryRegistersNothing ==
    err =>
        /\ pc = "done"
        /\ Len(webServices) = 4
        /\ Len(heap) = 4
        /\ [k \in 1..4 |-> heap[webServices[k]].rootPath]
             = <<"/v1/namespaces", "/v1/websocket", "/health", "/readiness">>
        /\ [k \in 1..4 |-> Len(heap[webServices[k]].routes)] = <<19, 2, 1, 1>>
        /\ \A rt \in VisibleRoutes : RouteAt(rt).to.fn # "HandleExtension"
        /\ MethodMatches([method |-> "GET", path |-> "/health/"]) # {}

C4_Witness ==
    /\ err
    /\ req.state = "done"
    /\ req.fn = "checkHealth"
    /\ req.status = 200

\* C5: a returned service without the endpoint annotation gets no route, is
\* never what stops the pass, and the services after it are still processed.
C5_UnannotatedServiceIgnored ==
    /\ \A k \in 1..Len(svcs) : ~Annotated(svcs[k]) => NoRouteFor(svcs[k])
    /\ pc = "panicked" => Annotated(svcs[i])
    /\ PassDone =>
         Len(PassRoutes) = Cardinality({ k \in 1..Len(svcs) : Annotated(svcs[k]) })

C5_Witness ==
    /\ PassDone
    /\ Len(svcs) = 2
    /\ ~Annotated(svcs[1])
    /\ Len(svcs[1].Ports) = 0
    /\ Annotated(svcs[2])
    /\ HasRouteFor(svcs[2])

\* the extension routes a request can reach, as <<path, name, port>>
LiveExtensionRoutes ==
    { <<RouteAt(rt).path, RouteAt(rt).to.recv.Name, RouteAt(rt).to.recv.Port>> :
        rt \in { v \in VisibleRoutes : RouteAt(v).to.fn = "HandleExtension" } }

\* C6: across repeated passes on one container each pass replaces the route
\* table: after a pass completes, the live extension routes are exactly those
\* built from the services that pass returned.
C6_PassReplacesTable ==
    PassDone =>
        LiveExtensionRoutes =
            { <<svcs[k].Annotations[urlKey], svcs[k].Name, DecimalOf(svcs[k].Ports[1])>> :
                k \in { n \in 1..Len(svcs) : Annotated(svcs[n]) } }

\* C7: a request that arrives while a pass runs sees either none of the
\* routes of that pass or all of them: the number of routes of the pass's web
\* service that are reachable from the container is 0 or the number of
\* annotated services, at every moment and for every request.
C7_RoutesVisibleAtOnce ==
    LET all == Cardinality({ k \in 1..Len(svcs) : Annotated(svcs[k]) }) IN
    /\ SeenOfPass \in {0, all}
    /\ req.state # "idle" => req.seen \in {0, all}
    /\ req.pcAt = "loop" => req.seen = 0

C7_Witness ==
    /\ req.pcAt = "loop"
    /\ req.built >= 1
    /\ req.seen = 0
    /\ req.status = 404
    /\ req.path = "/foo-ext"

\* C8: a request matched to an extension route is forwarded to
\* http://<name>:<port>/, name the service's name and port the decimal form
\* of the first element of its port list.
C8_TargetIsFirstPort ==
    req.fn = "HandleExtension" =>
        \E k \in 1..Len(svcs) :
            /\ svcs[k].Name = req.ext.Name
            /\ HasPort(svcs[k])
            /\ req.target =
                 "http://" \o svcs[k].Name \o ":" \o DecimalOf(svcs[k].Ports[1]) \o "/"

C8_Witness ==
    /\ req.fn = "HandleExtension"
    /\ req.ext.Name = "foo"
    /\ req.target = "http://foo:8080/"
    /\ \E k \in 1..Len(svcs) : svcs[k].Name = "foo" /\ Len(svcs[k].Ports) = 2

UpstreamUnreachable == req.upstream \in {"refused", "unresolved"}

BoundToDeclarer(route) ==
    \E k \in 1..Len(svcs) :
        /\ Annotated(svcs[k])
        /\ svcs[k].Annotations[urlKey] = route.path
        /\ route.to.recv =
             [Name |-> svcs[k].Name, URL |-> route.path,
              Port |-> DecimalOf(svcs[k].Ports[1])]

\* C10: the Extension bound to a route is fixed at registration: every route
\* of the pass is bound to the service that declared its path, a request is
\* forwarded with the binding of a route of its path, and no step changes a
\* route once it is registered.
C10_BindingFixedAtRegistration ==
    /\ [](\A j \in 1..Len(PassRoutes) : BoundToDeclarer(PassRoutes[j]))
    /\ [](req.fn = "HandleExtension" =>
            BoundToDeclarer([path |-> req.path, to |-> [recv |-> req.ext]]))
    /\ [][\A p \in 1..Len(heap) : \A j \in 1..Len(heap[p].routes) :
            heap'[p].routes[j] = heap[p].routes[j]]_vars

C10_Witness ==
    /\ PassDone
    /\ Len(PassRoutes) = 2
    /\ PassRoutes[1].path # PassRoutes[2].path
    /\ req.state = "done"
    /\ req.path = PassRoutes[1].path
    /\ req.ext.Name = svcs[1].Name
    /\ req.target = "http://foo:8080/"

====
